---- MODULE Spec2Model ----
(***************************************************************************)
(* A model of src/multi_tool_agent/agent.py: the process-wide RepoContext, *)
(* the tool functions that act on it, and the files and external processes *)
(* they touch.                                                             *)
(*                                                                         *)
(* Conventions.                                                            *)
(*  - A text (a Python str) is a sequence of string tokens; the substring  *)
(*    test `s in text` is membership of the token s in the sequence, and   *)
(*    `+` / f-string concatenation is \o.  str.strip() changes no token.   *)
(*  - A file name is a pair <<prefix, rest>> with prefix "." or "", so     *)
(*    that name.startswith('.') is a test of the name, not a table.        *)
(*  - The non-ASCII marks of the success strings are written [DONE].       *)
(*  - An external process is opaque: all that is modelled of it is that it *)
(*    was started (argv, cwd), its exit status and its stdout/stderr; the  *)
(*    one exception is `git init`, which creates the .git directory.       *)
(***************************************************************************)
EXTENDS Integers, Sequences, FiniteSets, TLC

VARIABLES
    path,        \* repo_context.path: None or the stored path
    gitdir,      \* per existing directory: does <dir>/.git exist (a directory)
    initLog,     \* history: per directory, the outcomes of the `git init` runs
    readme,      \* per directory: README.md, [exists, text]
    ctxfile,     \* per directory: context.json, [exists, text] (JSON lexemes)
    ctx0,        \* history: context.json as it was initially
    supplied,    \* history: per directory, the entries of the successful appends
    dockerfile,  \* per directory: Dockerfile, [exists, text]
    op,          \* name of the last operation invoked
    ret,         \* how it ended: [kind |-> "return" | "raise", val |-> text]
    effects,     \* the file writes and processes of the last call, in order
    tree,        \* a directory tree under the context path (describe_structure)
    treeOut,     \* the lines describe_structure returned for it
    status,      \* a `git status` text (recommend_action)
    recOut,      \* what recommend_action returned for it
    bound,       \* TCP ports bound by other processes
    pc,          \* get_available_port: "idle", "loop", "bound", "done"
    lo, hi,      \* its arguments start_port, end_port
    cur,         \* its loop variable port
    held,        \* the port its open socket is bound to, or -1
    portRet      \* its result

repoVars == <<path, gitdir, initLog, readme, ctxfile, ctx0, supplied, dockerfile,
              op, ret, effects>>
treeVars == <<tree, treeOut>>
recVars  == <<status, recOut>>
portVars == <<bound, pc, lo, hi, cur, held, portRet>>
vars     == <<repoVars, treeVars, recVars, portVars>>

---------------------------------------------------------------------------
(* Bounds of the model *)

MaxInitRuns == 2     \* `git init` runs recorded per directory
MaxAppends  == 2     \* blocks appended to one README.md
MaxEntries  == 2     \* elements of the list in context.json
MaxNodes    == 3     \* nodes of a directory tree below its root
MaxStatus   == 3     \* tokens of a git status text
MaxPort     == 3     \* ports are 0 .. MaxPort

---------------------------------------------------------------------------
(* Generic helpers *)

None == "None"

Contains(text, s) == \E i \in 1..Len(text) : text[i] = s

Range(seq) == {seq[i] : i \in 1..Len(seq)}

IsPrefix(s, t) == Len(s) <= Len(t) /\ SubSeq(t, 1, Len(s)) = s

RECURSIVE SeqsUpTo(_, _)
SeqsUpTo(S, n) ==
    IF n = 0 THEN {<<>>}
    ELSE LET shorter == SeqsUpTo(S, n - 1)
         IN  shorter \cup {Append(s, x) : s \in {t \in shorter : Len(t) = n - 1}, x \in S}

Return(text) == [kind |-> "return", val |-> text]
Raise(exc)   == [kind |-> "raise", val |-> <<exc>>]

Proc(cwd, argv)  == <<"proc", cwd>> \o argv
Write(dir, file) == <<"write", dir, file>>

---------------------------------------------------------------------------
(* File names and directory trees *)

N(s)   == <<"", s>>
Dot(s) == <<".", s>>

NameStr(name) == name[1] \o name[2]

\* name.startswith('.')
StartsWithDot(name) == name[1] = "."

\* A tree is a sequence of nodes [name, isdir, parent]; node 1 is the root
\* (parent 0) and the index order is the enumeration order of os.listdir.
Node(name, isdir, parent) == [name |-> name, isdir |-> isdir, parent |-> parent]

RECURSIVE ChildrenFrom(_, _, _)
ChildrenFrom(t, i, k) ==
    IF k > Len(t) THEN <<>>
    ELSE (IF t[k].parent = i THEN <<k>> ELSE <<>>) \o ChildrenFrom(t, i, k + 1)

\* os.listdir(i): the entries of directory i, in enumeration order
Children(t, i) == ChildrenFrom(t, i, 1)

RECURSIVE Indent(_)
Indent(level) == IF level = 0 THEN "" ELSE "  " \o Indent(level - 1)

\* f"{indent}- {folder}/" and f"{indent}  - {f}"
DirLine(level, name)  == Indent(level) \o "- " \o NameStr(name) \o "/"
FileLine(level, name) == Indent(level) \o "  - " \o NameStr(name)

\* the set literal of the dirs[:] filter and that of the file filter
WalkExcludedDirs  == {Dot("env"), N("env"), N("venv"), Dot("venv"), N("__pycache__")}
WalkExcludedFiles == {N("README.md"), Dot("env")}

KeepDir_hiddenOnly(name) == ~StartsWithDot(name)
\* dirs[:] = [d for d in dirs if not d.startswith('.') and d not in {...}]
KeepDir(name) == ~StartsWithDot(name) /\ name \notin WalkExcludedDirs

\* if f.startswith('.') or f in {'README.md', '.env'}: continue
SkipFile(name) == StartsWithDot(name) \/ name \in WalkExcludedFiles

RECURSIVE Walk(_, _, _)
RECURSIVE WalkAll(_, _, _)
\* one iteration of `for root, dirs, files in os.walk(...)` at directory i,
\* followed by os.walk's top-down descent into what is left of dirs
Walk(t, i, level) ==
    LET entries == Children(t, i)
        IsKeptDir(k)    == t[k].isdir /\ KeepDir(t[k].name)
        IsListedFile(k) == ~t[k].isdir /\ ~SkipFile(t[k].name)
        dirs  == SelectSeq(entries, IsKeptDir)
        files == SelectSeq(entries, IsListedFile)
    IN  <<DirLine(level, t[i].name)>>
        \o [j \in 1..Len(files) |-> FileLine(level, t[files[j]].name)]
        \o WalkAll(t, dirs, level + 1)
WalkAll(t, dirs, level) ==
    IF dirs = <<>> THEN <<>>
    ELSE Walk(t, Head(dirs), level) \o WalkAll(t, Tail(dirs), level)

\* describe_structure with the context path set, on the tree under it
DescribeTree(t) == Walk(t, 1, 0)

---------------------------------------------------------------------------
(* The file system the tools act on *)

Repo    == "/repo"       \* an existing directory
Missing == "/missing"    \* a path at which nothing exists
Paths   == {Repo, Missing}

File(text) == [exists |-> TRUE, text |-> text]
Absent     == [exists |-> FALSE, text |-> <<>>]

PathExists_always(p) == TRUE
\* os.path.exists(path)
PathExists(p) == p = Repo

NeedsGitInit_always(p) == TRUE
\* not os.path.isdir(os.path.join(path, ".git"))
NeedsGitInit(p) == ~gitdir[p]

\* The tree under directory p: fixed sources, plus the entries the tools create.
RepoTree(p) ==
    <<Node(N("repo"), TRUE, 0),
      Node(N("src"), TRUE, 1), Node(N("main.py"), FALSE, 2),
      Node(N("venv"), TRUE, 1), Node(N("pyvenv.cfg"), FALSE, 4)>>
    \o (IF gitdir[p] THEN <<Node(Dot("git"), TRUE, 1)>> ELSE <<>>)
    \o (IF readme[p].exists THEN <<Node(N("README.md"), FALSE, 1)>> ELSE <<>>)
    \o (IF ctxfile[p].exists THEN <<Node(N("context.json"), FALSE, 1)>> ELSE <<>>)
    \o (IF dockerfile[p].exists THEN <<Node(N("Dockerfile"), FALSE, 1)>> ELSE <<>>)

\* [f for f in os.listdir(dir i of t) if not f.startswith('.') and f not in excluded]
Listing(t, i, excluded) ==
    LET Shown(k) == ~StartsWithDot(t[k].name) /\ t[k].name \notin excluded
        shown    == SelectSeq(Children(t, i), Shown)
    IN  [j \in 1..Len(shown) |-> t[shown[j]].name]

\* "\n".join(f"- {f}" for f in names)
Bullets(names) == [j \in 1..Len(names) |-> "- " \o NameStr(names[j])]

\* os.path.isdir(os.path.join(repo_context.path, subpath)); 0 when it is not
DirAt(t, subpath) ==
    LET hits == {k \in 1..Len(t) : t[k].parent = 1 /\ t[k].isdir /\ t[k].name = subpath}
    IN  IF hits = {} THEN 0 ELSE CHOOSE k \in hits : TRUE

FileAt(t, name) == \E k \in 1..Len(t) : t[k].parent = 1 /\ ~t[k].isdir /\ t[k].name = name

PreviewLimit == 10

PreviewExcluded  == {Dot("env"), N("env"), N("venv"), Dot("venv")}
TopLevelExcluded == {Dot("env"), N("env"), N("venv"), Dot("venv"), N("README.md"), N("__pycache__")}
FolderExcluded   == {Dot("env"), N("env"), N("venv"), Dot("venv"), N("__pycache__")}

---------------------------------------------------------------------------
(* Result texts *)

ErrNotSetGit  == <<"[ERROR]", "Repo path not set.", "Call set_repo_path() first.">>
ErrNotSet     == <<"[ERROR]", "Repo path not set.">>
ErrNotSetRepo == <<"[ERROR]", "Repository path is not set in RepoContext.">>
ErrNoPath     == <<"[ERROR]", "Path does not exist.">>
OkMarker      == <<"[OK] Command succeeded.">>

\* `if not repo_context.path`
PathUnset == path = None

---------------------------------------------------------------------------
(* External commands *)

Exit0(out)  == [exit |-> 0, stdout |-> out, stderr |-> <<>>]
Exit1       == [exit |-> 1, stdout |-> <<>>, stderr |-> <<"(stderr)">>]

CmdOutcomes == {Exit0(<<"(stdout)">>), Exit0(<<>>), Exit1}

\* texts `git status` prints in the main specification
StatusSamples ==
    {<<"On branch main", "Changes not staged", "Untracked files">>,
     <<"On branch main", "ahead of", "working tree clean">>}

StatusOutcomes == {Exit0(s) : s \in StatusSamples} \cup {Exit1}

\* the body of run_git_command / run_shell_command after the path check:
\* subprocess.run(argv, capture_output=True, text=True, check=True, cwd=path)
RunChecked(argv, out) ==
    [ret |-> Return(IF out.exit = 0
                    THEN (IF out.stdout = <<>> THEN OkMarker ELSE out.stdout)
                    ELSE <<"[ERROR]">> \o out.stderr),
     eff |-> <<Proc(path, argv)>>]

run_git_command(args, out) ==
    IF PathUnset THEN [ret |-> Return(ErrNotSetGit), eff |-> <<>>]
    ELSE RunChecked(<<"git">> \o args, out)

---------------------------------------------------------------------------
(* recommend_action's substring tests *)

Markers == <<"Changes not staged", "Changes to be committed", "Untracked files",
             "ahead of", "working tree clean">>

Suggestions == <<"- Stage changes: add_data()", "- Commit staged: commit_data(msg)",
                 "- Stage untracked: add_data()", "- Push to remote: push_changes()",
                 "- Tree clean: maybe switch_branch() or pull_changes().">>

RecHeader == "Here's my recommendation:"
NothingToRecommend == <<"Nothing to recommend.">>

\* if "<marker k>" in status: recs.append("<suggestion k>")
Rec(st, k) == IF Contains(st, Markers[k]) THEN <<Suggestions[k]>> ELSE <<>>

Recommend_swapped(st) ==
    LET recs == <<RecHeader>> \o Rec(st, 1) \o Rec(st, 3) \o Rec(st, 2) \o Rec(st, 4) \o Rec(st, 5)
    IN  IF Len(recs) > 1 THEN recs ELSE NothingToRecommend
\* lines 102-108 of recommend_action, on the status text st
Recommend(st) ==
    LET recs == <<RecHeader>> \o Rec(st, 1) \o Rec(st, 2) \o Rec(st, 3) \o Rec(st, 4) \o Rec(st, 5)
    IN  IF Len(recs) > 1 THEN recs ELSE NothingToRecommend

---------------------------------------------------------------------------
(* context.json: JSON text as a sequence of lexemes *)

E1 == "{file: a.py}"
E2 == "{file: b.py}"
Entries    == {E1, E2}              \* the dicts update_code_context is given
JsonValues == Entries \cup {"42"}   \* lexemes that are a JSON value by themselves

RECURSIVE Join(_)
Join(items) ==
    IF Len(items) <= 1 THEN items
    ELSE <<Head(items), ",">> \o Join(Tail(items))

\* json.dump(existing_data, f, indent=2)
JsonDump(items) == <<"[">> \o Join(items) \o <<"]">>

\* json.load(f): a list, another value, or JSONDecodeError
JsonLoad(text) ==
    LET n     == Len(text)
        inner == SubSeq(text, 2, n - 1)
        m     == Len(inner)
        isList ==
            /\ n >= 2 /\ text[1] = "[" /\ text[n] = "]"
            /\ (m = 0 \/ m % 2 = 1)
            /\ \A i \in 1..m : IF i % 2 = 1 THEN inner[i] \in JsonValues ELSE inner[i] = ","
    IN  IF isList
        THEN [ok |-> TRUE, islist |-> TRUE, val |-> [i \in 1..((m + 1) \div 2) |-> inner[2 * i - 1]]]
        ELSE IF n = 1 /\ text[1] \in JsonValues
        THEN [ok |-> TRUE, islist |-> FALSE, val |-> text[1]]
        ELSE [ok |-> FALSE, islist |-> FALSE, val |-> "JSONDecodeError"]

LoadExisting_dropNonList(file) ==
    IF ~file.exists THEN <<>>
    ELSE LET j == JsonLoad(file.text)
         IN  IF j.ok /\ j.islist THEN j.val ELSE <<>>
\* lines 170-179 of update_code_context: existing_data before the append
LoadExisting(file) ==
    IF ~file.exists THEN <<>>
    ELSE LET j == JsonLoad(file.text)
         IN  IF ~j.ok THEN <<>>              \* except json.JSONDecodeError
             ELSE IF j.islist THEN j.val
             ELSE <<j.val>>                  \* existing_data = [existing_data]

AppendEntry_dedup(existing, content) ==
    IF content \in Range(existing) THEN existing ELSE Append(existing, content)
\* existing_data.append(content)
AppendEntry(existing, content) == Append(existing, content)

---------------------------------------------------------------------------
(* README.md: a sequence of chunks, each written by one write() *)

Prior == [title |-> "(prior content)", body |-> <<>>]

\* '\n\n# Project Structure\n\n' + describe_structure() + '\n'
Block(lines) == [title |-> "# Project Structure", body |-> lines]

Blocks(file) == Cardinality({i \in 1..Len(file.text) : file.text[i].title = "# Project Structure"})

AppendTo_truncating(file, chunk) == File(<<chunk>>)
\* with open(readme_path, 'a') as f: f.write(content)
AppendTo(file, chunk) == File(file.text \o <<chunk>>)

\* update_readme, as a result: what it returns, does, and leaves in README.md
UpdateReadme(io) ==
    IF PathUnset THEN [ret |-> Return(ErrNotSet), eff |-> <<>>, file |-> Absent]
    ELSE LET content == Block(DescribeTree(RepoTree(path)))
         IN  IF io = "ok"
             THEN [ret  |-> Return(<<"[DONE]", "Appended project structure to README.md.">>),
                   eff  |-> <<Write(path, "README.md")>>,
                   file |-> AppendTo(readme[path], content)]
             ELSE [ret  |-> Return(<<"[ERROR]", "Failed to update README.md:", "(OSError)">>),
                   eff  |-> <<>>,
                   file |-> readme[path]]

---------------------------------------------------------------------------
(* The tool functions over RepoContext *)

fileVars  == <<readme, ctxfile, ctx0, supplied, dockerfile>>
gitVars   == <<gitdir, initLog>>
otherVars == <<treeVars, recVars, portVars>>

\* a call that changes nothing but what it returns and the processes it starts
Finish(name, r) ==
    /\ op' = name
    /\ ret' = r.ret
    /\ effects' = r.eff
    /\ UNCHANGED <<path, gitVars, fileVars, otherVars>>

Preview(p) ==
    LET files == Listing(RepoTree(p), 1, PreviewExcluded)
        first == SubSeq(files, 1, IF Len(files) < PreviewLimit THEN Len(files) ELSE PreviewLimit)
    IN  <<"[DONE] Repo set to:", p, "Preview:">>
        \o (IF first = <<>> THEN <<"(empty)">> ELSE Bullets(first))

set_repo_path(p, initOk) ==
    /\ op' = "set_repo_path"
    /\ IF ~PathExists(p)
       THEN /\ ret' = Return(ErrNoPath)
            /\ effects' = <<>>
            /\ UNCHANGED <<path, gitVars>>
       ELSE /\ path' = p
            /\ IF NeedsGitInit(p)
               THEN \* subprocess.run(["git", "init"], cwd=path, check=True)
                    /\ Len(initLog[p]) < MaxInitRuns
                    /\ effects' = <<Proc(p, <<"git", "init">>)>>
                    /\ initLog' = [initLog EXCEPT ![p] = Append(@, IF initOk THEN "ok" ELSE "fail")]
                    /\ IF initOk
                       THEN /\ gitdir' = [gitdir EXCEPT ![p] = TRUE]
                            /\ ret' = Return(Preview(p))
                       ELSE /\ UNCHANGED gitdir
                            /\ ret' = Raise("CalledProcessError")
               ELSE /\ effects' = <<>>
                    /\ ret' = Return(Preview(p))
                    /\ UNCHANGED gitVars
    /\ UNCHANGED <<fileVars, otherVars>>

run_shell_command(cmd, out) ==
    Finish("run_shell_command",
           IF PathUnset THEN [ret |-> Return(ErrNotSet), eff |-> <<>>]
           ELSE RunChecked(<<"sh", "-c", cmd>>, out))

get_status(out)           == Finish("get_status", run_git_command(<<"status">>, out))
add_data(out)             == Finish("add_data", run_git_command(<<"add", ".">>, out))
pull_changes(out)         == Finish("pull_changes", run_git_command(<<"pull">>, out))
rollback_last_commit(out) == Finish("rollback_last_commit", run_git_command(<<"reset", "--soft", "HEAD~1">>, out))
create_branch(b, out)     == Finish("create_branch", run_git_command(<<"checkout", "-b", b>>, out))
switch_branch(b, out)     == Finish("switch_branch", run_git_command(<<"checkout", b>>, out))
delete_branch(b, out)     == Finish("delete_branch", run_git_command(<<"branch", "-d", b>>, out))
stash_changes(out)        == Finish("stash_changes", run_git_command(<<"stash">>, out))
apply_stash(out)          == Finish("apply_stash", run_git_command(<<"stash", "apply">>, out))
view_log(out)             == Finish("view_log", run_git_command(<<"log", "--oneline", "-n", "5">>, out))

commit_data(msg, out1, out2) ==
    LET add_res    == run_git_command(<<"add", ".">>, out1)
        commit_res == run_git_command(<<"commit", "-m", msg>>, out2)
    IN  Finish("commit_data",
               [ret |-> Return(add_res.ret.val \o commit_res.ret.val),
                eff |-> add_res.eff \o commit_res.eff])

recommend_action(out) ==
    LET st == run_git_command(<<"status">>, out)
    IN  Finish("recommend_action", [ret |-> Return(Recommend(st.ret.val)), eff |-> st.eff])

list_repo_files ==
    Finish("list_repo_files",
           [ret |-> Return(IF PathUnset THEN ErrNotSet
                           ELSE <<"Files:">> \o Bullets(Listing(RepoTree(path), 1, TopLevelExcluded))),
            eff |-> <<>>])

list_folder_contents(subpath) ==
    Finish("list_folder_contents",
           [ret |-> Return(IF PathUnset THEN ErrNotSet
                           ELSE LET t == RepoTree(path)
                                    full == DirAt(t, subpath)
                                IN  IF full = 0
                                    THEN <<"[ERROR]", NameStr(subpath), "is not a directory.">>
                                    ELSE <<"Contents of", NameStr(subpath)>>
                                         \o Bullets(Listing(t, full, FolderExcluded))),
            eff |-> <<>>])

describe_structure ==
    Finish("describe_structure",
           [ret |-> Return(IF PathUnset THEN ErrNotSet ELSE DescribeTree(RepoTree(path))),
            eff |-> <<>>])

update_readme(io) ==
    LET r == UpdateReadme(io)
    IN  /\ IF PathUnset THEN TRUE ELSE Blocks(readme[path]) < MaxAppends
        /\ op' = "update_readme"
        /\ ret' = r.ret
        /\ effects' = r.eff
        /\ readme' = IF PathUnset THEN readme ELSE [readme EXCEPT ![path] = r.file]
        /\ UNCHANGED <<path, gitVars, ctxfile, ctx0, supplied, dockerfile, otherVars>>

push_changes(io, out) ==
    LET r    == UpdateReadme(io)                  \* update_readme()
        push == run_git_command(<<"push">>, out)  \* return run_git_command("push")
    IN  /\ IF PathUnset THEN TRUE ELSE Blocks(readme[path]) < MaxAppends
        /\ op' = "push_changes"
        /\ ret' = push.ret
        /\ effects' = r.eff \o push.eff
        /\ readme' = IF PathUnset THEN readme ELSE [readme EXCEPT ![path] = r.file]
        /\ UNCHANGED <<path, gitVars, ctxfile, ctx0, supplied, dockerfile, otherVars>>

get_file_content(file_name) ==
    Finish("get_file_content",
           [ret |-> Return(IF PathUnset
                           THEN \* os.path.join(None, file_name) raises inside the try
                                <<"[ERROR]", "Could not read", NameStr(file_name), "(TypeError)">>
                           ELSE IF FileAt(RepoTree(path), file_name)
                           THEN <<"(content of)", NameStr(file_name)>>
                           ELSE <<"[ERROR]", "Could not read", NameStr(file_name), "(FileNotFoundError)">>),
            eff |-> <<>>])

update_code_context(content, io) ==
    /\ op' = "update_code_context"
    /\ IF PathUnset
       THEN \* os.path.join(None, 'context.json') raises outside the try
            /\ ret' = Raise("TypeError")
            /\ effects' = <<>>
            /\ UNCHANGED <<ctxfile, supplied>>
       ELSE IF io = "ok"
       THEN LET data == AppendEntry(LoadExisting(ctxfile[path]), content)
            IN  /\ Len(data) <= MaxEntries
                /\ ctxfile' = [ctxfile EXCEPT ![path] = File(JsonDump(data))]
                /\ supplied' = [supplied EXCEPT ![path] = Append(@, content)]
                /\ effects' = <<Write(path, "context.json")>>
                /\ ret' = Return(<<"[DONE]", "Appended new context to context.json successfully.">>)
       ELSE /\ ret' = Return(<<"[ERROR]", "Failed to update context.json:", "(OSError)">>)
            /\ effects' = <<>>
            /\ UNCHANGED <<ctxfile, supplied>>
    /\ UNCHANGED <<path, gitVars, readme, ctx0, dockerfile, otherVars>>

generate_dockerfile_from_context(dockerfile_content, io) ==
    /\ op' = "generate_dockerfile_from_context"
    /\ IF path = None     \* if repo_context.path is None
       THEN /\ ret' = Return(ErrNotSetRepo)
            /\ effects' = <<>>
            /\ UNCHANGED dockerfile
       ELSE IF io = "ok"
       THEN /\ dockerfile' = [dockerfile EXCEPT ![path] = File(<<dockerfile_content>>)]
            /\ effects' = <<Write(path, "Dockerfile")>>
            /\ ret' = Return(<<"[DONE]", "Dockerfile successfully created at:", path>>)
       ELSE /\ ret' = Return(<<"[ERROR]", "Failed to write Dockerfile:", "(OSError)">>)
            /\ effects' = <<>>
            /\ UNCHANGED dockerfile
    /\ UNCHANGED <<path, gitVars, readme, ctxfile, ctx0, supplied, otherVars>>

\* subprocess.run(["docker", "build", "-t", tag, "."], cwd=repo_context.path):
\* no path check, and cwd=None runs the build in the agent's own directory
build_docker_image(tag, exit) ==
    Finish("build_docker_image",
           [ret |-> Return(IF exit = 0
                           THEN <<"[DONE]", "Docker image built successfully with tag:", tag>>
                           ELSE <<"[ERROR]", "Docker build failed:", "(stdout)", "(stderr)">>),
            eff |-> <<Proc(path, <<"docker", "build", "-t", tag, ".">>)>>])

run_docker_container(tag, exit, crashed) ==
    Finish("run_docker_container",
           IF exit # 0
           THEN [ret |-> Return(<<"[ERROR]", "Docker run failed:", "(stdout)", "(stderr)">>),
                 eff |-> <<Proc(None, <<"docker", "run", "-d", tag>>)>>]
           ELSE [ret |-> Return(IF crashed
                                THEN <<"[ERROR]", "Container log shows crash:", "(logs)">>
                                ELSE <<"Docker container running!", "Container ID:", "(id)">>),
                 eff |-> <<Proc(None, <<"docker", "run", "-d", tag>>),
                           Proc(None, <<"docker", "logs", "(id)">>)>>])

---------------------------------------------------------------------------
(* The main specification: any sequence of tool calls by one caller *)

IO == {"ok", "fail"}

TreeIdle == /\ tree = <<Node(N("repo"), TRUE, 0)>>
            /\ treeOut = <<>>
RecIdle  == /\ status = <<>>
            /\ recOut = <<>>
PortIdle == /\ bound = {}
            /\ pc = "idle"
            /\ lo = 0
            /\ hi = 0
            /\ cur = 0
            /\ held = -1
            /\ portRet = Return(<<>>)

\* What every specification starts from: nothing called yet, no path stored
Fresh ==
    /\ path = None      \* class RepoContext: path = None
    /\ initLog = [p \in Paths |-> <<>>]
    /\ supplied = [p \in Paths |-> <<>>]
    /\ dockerfile = [p \in Paths |-> Absent]
    /\ op = "none"
    /\ ret = Return(<<>>)
    /\ effects = <<>>

\* The directory is a project that may or may not be a git repository yet,
\* without a README.md and without a context.json.
Init ==
    /\ Fresh
    /\ gitdir \in {g \in [Paths -> BOOLEAN] : ~g[Missing]}
    /\ readme = [p \in Paths |-> Absent]
    /\ ctxfile = [p \in Paths |-> Absent]
    /\ ctx0 = ctxfile
    /\ TreeIdle /\ RecIdle /\ PortIdle

\* RepoContext, CommandRunner and the inspection tools, which write no file
NextRepo ==
    \/ \E p \in Paths, initOk \in BOOLEAN : set_repo_path(p, initOk)
    \/ \E out \in CmdOutcomes : run_shell_command("make", out)
    \/ \E out \in StatusOutcomes : get_status(out)
    \/ \E out \in CmdOutcomes : add_data(out)
    \/ \E out1 \in CmdOutcomes, out2 \in CmdOutcomes : commit_data("msg", out1, out2)
    \/ \E out \in CmdOutcomes : pull_changes(out)
    \/ \E out \in CmdOutcomes : rollback_last_commit(out)
    \/ \E out \in CmdOutcomes : create_branch("dev", out)
    \/ \E out \in CmdOutcomes : switch_branch("dev", out)
    \/ \E out \in CmdOutcomes : delete_branch("dev", out)
    \/ \E out \in CmdOutcomes : stash_changes(out)
    \/ \E out \in CmdOutcomes : apply_stash(out)
    \/ \E out \in CmdOutcomes : view_log(out)
    \/ \E out \in StatusOutcomes : recommend_action(out)
    \/ list_repo_files
    \/ \E sub \in {N("src"), N("main.py")} : list_folder_contents(sub)
    \/ describe_structure

\* ReadmeWriter
NextReadme ==
    \/ \E io \in IO : update_readme(io)
    \/ \E io \in IO, out \in CmdOutcomes : push_changes(io, out)

\* ContextRecorder
NextContext ==
    \/ \E f \in {N("context.json"), N("main.py")} : get_file_content(f)
    \/ \E content \in Entries, io \in IO : update_code_context(content, io)

\* ContainerBuilder (get_available_port is specified apart, below)
NextContainer ==
    \/ \E io \in IO : generate_dockerfile_from_context("FROM python", io)
    \/ \E exit \in {0, 1} : build_docker_image("my_app_image", exit)
    \/ \E exit \in {0, 1}, crashed \in BOOLEAN : run_docker_container("my_app_image", exit, crashed)

Next == NextRepo \/ NextReadme \/ NextContext \/ NextContainer

Spec == Init /\ [][Next]_vars

---------------------------------------------------------------------------
(* Component specifications: set_repo_path with the tools of one component *)

SetPath == \E p \in Paths, initOk \in BOOLEAN : set_repo_path(p, initOk)

\* RepoContext with CommandRunner and the inspection tools
SpecRepo == Init /\ [][NextRepo]_vars

\* ReadmeWriter, over a directory with or without a README.md; writing the
\* Dockerfile is what changes the structure between two reports
InitReadme ==
    /\ Fresh
    /\ gitdir \in {g \in [Paths -> BOOLEAN] : ~g[Missing]}
    /\ readme \in {f \in [Paths -> {Absent, File(<<Prior>>)}] : f[Missing] = Absent}
    /\ ctxfile = [p \in Paths |-> Absent]
    /\ ctx0 = ctxfile
    /\ TreeIdle /\ RecIdle /\ PortIdle

NextReadmeWriter ==
    \/ SetPath
    \/ describe_structure
    \/ \E io \in IO : generate_dockerfile_from_context("FROM python", io)
    \/ NextReadme
SpecReadme == InitReadme /\ [][NextReadmeWriter]_vars

\* ContextRecorder, over a context.json found absent, cut off, or not a list
InvalidJson == File(<<"[", E1, ",">>)
NonList     == File(<<E2>>)

InitContext ==
    /\ Fresh
    /\ gitdir \in {g \in [Paths -> BOOLEAN] : ~g[Missing]}
    /\ readme = [p \in Paths |-> Absent]
    /\ ctxfile \in {f \in [Paths -> {Absent, InvalidJson, NonList}] : f[Missing] = Absent}
    /\ ctx0 = ctxfile
    /\ TreeIdle /\ RecIdle /\ PortIdle

NextContextRecorder == SetPath \/ NextContext
SpecContext == InitContext /\ [][NextContextRecorder]_vars

---------------------------------------------------------------------------
(* describe_structure as a function of the tree under the context path *)

RootNames == {N("repo"), N("venv")}
NodeNames == {Dot("env"), N("venv"), N("README.md"), N("src")}

\* a node may be added under any directory that has no entry of that name yet
CanAdd(t, name, parent) ==
    /\ t[parent].isdir
    /\ \A k \in 1..Len(t) : t[k].parent = parent => t[k].name # name

InitTree ==
    /\ Fresh
    /\ gitdir = [p \in Paths |-> FALSE]
    /\ readme = [p \in Paths |-> Absent]
    /\ ctxfile = [p \in Paths |-> Absent]
    /\ ctx0 = ctxfile
    /\ tree \in {<<Node(r, TRUE, 0)>> : r \in RootNames}
    /\ treeOut = <<>>
    /\ RecIdle /\ PortIdle

\* someone creates a file or a directory in the tree
AddEntry(name, isdir, parent) ==
    /\ treeOut = <<>>
    /\ Len(tree) <= MaxNodes
    /\ parent \in 1..Len(tree)
    /\ CanAdd(tree, name, parent)
    /\ tree' = Append(tree, Node(name, isdir, parent))
    /\ UNCHANGED <<treeOut, repoVars, recVars, portVars>>

\* describe_structure() called with the context path set to the root of tree
DescribeStructureOfTree ==
    /\ treeOut = <<>>
    /\ treeOut' = DescribeTree(tree)
    /\ UNCHANGED <<tree, repoVars, recVars, portVars>>

NextTree ==
    \/ \E name \in NodeNames, isdir \in BOOLEAN, parent \in 1..(MaxNodes + 1) :
          AddEntry(name, isdir, parent)
    \/ DescribeStructureOfTree

SpecTree == InitTree /\ [][NextTree]_vars

---------------------------------------------------------------------------
(* recommend_action as a function of the status text *)

StatusTokens == Range(Markers) \cup {"On branch main"}

InitRecommend ==
    /\ Fresh
    /\ gitdir = [p \in Paths |-> FALSE]
    /\ readme = [p \in Paths |-> Absent]
    /\ ctxfile = [p \in Paths |-> Absent]
    /\ ctx0 = ctxfile
    /\ status \in SeqsUpTo(StatusTokens, MaxStatus)
    /\ recOut = <<>>
    /\ TreeIdle /\ PortIdle

\* lines 102-108 of recommend_action once run_git_command("status") returned status
RecommendOnStatus ==
    /\ recOut = <<>>
    /\ recOut' = Recommend(status)
    /\ UNCHANGED <<status, repoVars, treeVars, portVars>>

SpecRecommend == InitRecommend /\ [][RecommendOnStatus]_vars

---------------------------------------------------------------------------
(* get_available_port: one call, statement by statement *)

Ports == 0..MaxPort

NoSocket == -1

InitPort ==
    /\ Fresh
    /\ gitdir = [p \in Paths |-> FALSE]
    /\ readme = [p \in Paths |-> Absent]
    /\ ctxfile = [p \in Paths |-> Absent]
    /\ ctx0 = ctxfile
    /\ bound \in SUBSET Ports
    /\ pc = "idle"
    /\ lo = 0
    /\ hi = 0
    /\ cur = 0
    /\ held = NoSocket
    /\ portRet = [kind |-> "none", val |-> NoSocket]
    /\ TreeIdle /\ RecIdle

\* s.bind(("0.0.0.0", port)) succeeds
BindSucceeds(port) == port \notin bound /\ port # held

SocketAfterWith_leaked(h) == h
\* leaving `with socket.socket(...) as s:` closes s
SocketAfterWith(h) == NoSocket

\* for port in range(start_port, end_port): the port after this one
NextPort(port) == port + 1

\* get_available_port(start_port, end_port) is entered
get_available_port(start_port, end_port) ==
    /\ pc = "idle"
    /\ pc' = "loop"
    /\ lo' = start_port
    /\ hi' = end_port
    /\ cur' = start_port
    /\ UNCHANGED <<bound, held, portRet, repoVars, treeVars, recVars>>

\* one iteration: a socket is made and bound, or the bind raises OSError
PortProbe ==
    /\ pc = "loop"
    /\ cur < hi
    /\ IF BindSucceeds(cur)
       THEN /\ held' = cur
            /\ pc' = "bound"
            /\ UNCHANGED cur
       ELSE /\ held' = SocketAfterWith(held)
            /\ cur' = NextPort(cur)
            /\ UNCHANGED pc
    /\ UNCHANGED <<bound, lo, hi, portRet, repoVars, treeVars, recVars>>

\* return port
PortReturn ==
    /\ pc = "bound"
    /\ held' = SocketAfterWith(held)
    /\ portRet' = [kind |-> "return", val |-> cur]
    /\ pc' = "done"
    /\ UNCHANGED <<bound, lo, hi, cur, repoVars, treeVars, recVars>>

\* raise RuntimeError(f"No free ports found in range ...")
PortRaise ==
    /\ pc = "loop"
    /\ cur >= hi
    /\ portRet' = [kind |-> "raise", val |-> NoSocket]
    /\ pc' = "done"
    /\ UNCHANGED <<bound, lo, hi, cur, held, repoVars, treeVars, recVars>>

NextPortCall ==
    \/ \E start_port \in 0..(MaxPort + 1), end_port \in 0..(MaxPort + 1) :
          get_available_port(start_port, end_port)
    \/ PortProbe
    \/ PortReturn
    \/ PortRaise

SpecPort == InitPort /\ [][NextPortCall]_vars

---------------------------------------------------------------------------
(* The claims *)

HasErrorMarker(text) == Contains(text, "[ERROR]")

IsContextNotSet(text) ==
    /\ HasErrorMarker(text)
    /\ \/ Contains(text, "Repo path not set.")
       \/ Contains(text, "Repository path is not set in RepoContext.")

PathDependentOps ==
    {"run_shell_command", "get_status", "add_data", "commit_data", "push_changes",
     "pull_changes", "rollback_last_commit", "create_branch", "switch_branch",
     "delete_branch", "stash_changes", "apply_stash", "view_log", "recommend_action",
     "list_repo_files", "list_folder_contents", "describe_structure", "update_readme",
     "get_file_content", "update_code_context", "generate_dockerfile_from_context",
     "build_docker_image"}

\* C1: while the context path is unset, every path-dependent operation returns
\* the ContextNotSet error text, writes no file and starts no process.
C1_UnsetContextRefused ==
    (path = None /\ op \in PathDependentOps) =>
        /\ ret.kind = "return"
        /\ IsContextNotSet(ret.val)
        /\ effects = <<>>

\* C2: no caller-facing operation ever raises to the caller; each ends by
\* returning a value.
C2_NeverRaises == ret.kind = "return"

\* C3: set_repo_path on a path that does not exist returns the PathNotFound
\* text, leaves the stored path as it was and runs no git command.
C3_MissingPathRejected ==
    [][\A initOk \in BOOLEAN :
          set_repo_path(Missing, initOk) =>
              /\ ret' = Return(<<"[ERROR]", "Path does not exist.">>)
              /\ path' = path
              /\ effects' = <<>>
              /\ gitdir' = gitdir]_vars

\* C3 witness: a call on the missing path was refused while a path was stored
C3_Witness ==
    /\ op = "set_repo_path"
    /\ ret.val = <<"[ERROR]", "Path does not exist.">>
    /\ path = Repo

\* C4 as claimed: over any sequence of set_repo_path calls on an existing path
\* that lacked .git, `git init` is run exactly once.
C4_InitRunOnce == \A p \in Paths : Len(initLog[p]) <= 1

\* C4 as amended: a call runs `git init` only while the path has no .git
\* directory, so a `git init` that succeeded is the last one run on that path
\* (one that failed is run again by the next call).
C4_NoInitAfterSuccess ==
    \A p \in Paths :
        LET runs == initLog[p]
        IN  /\ \A i \in 1..(Len(runs) - 1) : runs[i] = "fail"
            /\ (runs # <<>> /\ runs[Len(runs)] = "ok") => gitdir[p]
            /\ (runs # <<>> /\ gitdir[p]) => runs[Len(runs)] = "ok"

\* C4 witness: after a failed and then a successful `git init`, a further
\* set_repo_path call on the path ran no command
C4_Witness ==
    /\ initLog[Repo] = <<"fail", "ok">>
    /\ op = "set_repo_path"
    /\ path = Repo
    /\ ret.kind = "return"
    /\ effects = <<>>

\* C5: starting from an absent context.json, the file holds the list of the
\* entries of the successful update_code_context calls, in call order, with
\* nothing deduplicated, merged or reordered.
C5_AppendsInCallOrder ==
    \A p \in Paths :
        ctx0[p] = Absent =>
            IF supplied[p] = <<>> THEN ctxfile[p] = Absent
            ELSE /\ ctxfile[p].exists
                 /\ JsonLoad(ctxfile[p].text) = [ok |-> TRUE, islist |-> TRUE, val |-> supplied[p]]

\* C5 witness: the same entry supplied twice is held twice
C5_Witness ==
    /\ ctx0[Repo] = Absent
    /\ supplied[Repo] = <<E1, E1>>
    /\ ctxfile[Repo].text = <<"[", E1, ",", E1, "]">>

\* C6: update_code_context on a context.json that is not valid JSON leaves the
\* one-element list of the new entry and returns the success string; on valid
\* JSON that is no list it leaves [prior value, new entry].
C6_InvalidDiscardedNonListWrapped ==
    \A p \in Paths :
        /\ (ctx0[p] = InvalidJson /\ supplied[p] # <<>>) =>
               JsonLoad(ctxfile[p].text) = [ok |-> TRUE, islist |-> TRUE, val |-> supplied[p]]
        /\ (ctx0[p] = NonList /\ supplied[p] # <<>>) =>
               JsonLoad(ctxfile[p].text) = [ok |-> TRUE, islist |-> TRUE, val |-> <<E2>> \o supplied[p]]
        /\ (ctx0[p] # Absent /\ path = p /\ op = "update_code_context" /\ effects # <<>>) =>
               /\ supplied[p] # <<>>
               /\ ret = Return(<<"[DONE]", "Appended new context to context.json successfully.">>)

\* C6 witness: the first append over the cut-off text succeeded
C6_Witness ==
    /\ ctx0[Repo] = InvalidJson
    /\ supplied[Repo] = <<E2>>
    /\ ctxfile[Repo].text = <<"[", E2, "]">>
    /\ op = "update_code_context"
    /\ ~HasErrorMarker(ret.val)

\* The names the claim excludes: hidden ones and the fixed exclusion set
ClaimedExcluded(name) ==
    \/ StartsWithDot(name)
    \/ name \in {Dot("env"), N("env"), N("venv"), Dot("venv"), N("README.md"), N("__pycache__")}

Levels == 0..(MaxNodes + 1)

\* C7 as claimed: below the line of the context path itself, the output has no
\* line for a file or directory, at any depth, whose name is hidden or in the
\* exclusion set.
C7_NoExcludedNameListed ==
    \A i \in 2..Len(treeOut) :
        \A name \in {m \in NodeNames \cup RootNames : ClaimedExcluded(m)}, level \in Levels :
            /\ treeOut[i] # DirLine(level, name)
            /\ treeOut[i] # FileLine(level, name)

RECURSIVE Depth(_, _)
Depth(t, k) == IF t[k].parent = 0 THEN 0 ELSE 1 + Depth(t, t[k].parent)

\* The entries the amended claim lets through: the root; below it a directory
\* unless hidden or named .env, env, venv, .venv or __pycache__, and a file
\* unless hidden or named README.md; and only under directories let through.
RECURSIVE MayBeListed(_, _)
MayBeListed(t, k) ==
    IF t[k].parent = 0 THEN TRUE
    ELSE /\ MayBeListed(t, t[k].parent)
         /\ ~StartsWithDot(t[k].name)
         /\ IF t[k].isdir
            THEN t[k].name \notin {N("env"), N("venv"), N("__pycache__")}
            ELSE t[k].name # N("README.md")

LineOf(t, k) ==
    IF t[k].isdir THEN DirLine(Depth(t, k), t[k].name)
    ELSE FileLine(Depth(t, k) - 1, t[k].name)

\* C7 as amended: every line of the output is the line of the root, of a
\* directory below it that is neither hidden nor named .env, env, venv, .venv
\* or __pycache__, or of a file that is neither hidden nor named README.md,
\* each lying under such directories only; all of these are listed.
C7_OnlyRetainedListed ==
    treeOut # <<>> =>
        Range(treeOut) = {LineOf(tree, k) : k \in {j \in 1..Len(tree) : MayBeListed(tree, j)}}

\* C7 witness: a venv directory with a file in it lies inside a listed
\* directory, and the walk has run
C7_Witness ==
    /\ treeOut # <<>>
    /\ \E a, b, c \in 1..Len(tree) :
          /\ tree[a].parent = 1 /\ tree[a].isdir /\ tree[a].name = N("src")
          /\ tree[b].parent = a /\ tree[b].isdir /\ tree[b].name = N("venv")
          /\ tree[c].parent = b /\ ~tree[c].isdir /\ tree[c].name = N("src")

\* C8: recommend_action emits one suggestion line per marker present in the
\* status text, in the fixed order of the five tests whatever the order of the
\* markers in the text, and "Nothing to recommend." exactly when none is present.
C8_SuggestionsInFixedOrder ==
    recOut # <<>> =>
        LET present == {k \in 1..5 : \E i \in 1..Len(status) : status[i] = Markers[k]}
        IN  IF present = {} THEN recOut = <<"Nothing to recommend.">>
            ELSE /\ Len(recOut) = 1 + Cardinality(present)
                 /\ recOut[1] = RecHeader
                 /\ \A k \in present :
                        recOut[1 + Cardinality({j \in present : j <= k})] = Suggestions[k]

\* C8 witness: the markers occur in the text in the reverse of the test order
C8_Witness ==
    /\ status = <<"Untracked files", "On branch main", "Changes not staged">>
    /\ recOut = <<RecHeader, "- Stage changes: add_data()", "- Stage untracked: add_data()">>

\* C9: get_available_port returns the smallest port of [low, high) that can be
\* bound, holds no socket once it has returned (the port can be bound again at
\* once), and fails with NoFreePort when no port of the range can be bound.
C9_FirstFreePortReleased ==
    pc = "done" =>
        LET free == {p \in lo..(hi - 1) : p \notin bound}
        IN  /\ held = NoSocket
            /\ IF free = {}
               THEN portRet.kind = "raise"
               ELSE /\ portRet.kind = "return"
                    /\ portRet.val \in free
                    /\ \A p \in free : portRet.val <= p
                    /\ BindSucceeds(portRet.val)

\* C9 witness: the call returned a port after passing over a bound one
C9_Witness ==
    /\ pc = "done"
    /\ portRet.kind = "return"
    /\ portRet.val > lo
    /\ lo \in bound

ReadmeStep(io, out) == update_readme(io) \/ push_changes(io, out)

\* C10 as claimed: with the path set, every update_readme and push_changes call
\* keeps the README content as a prefix and appends exactly one Project
\* Structure block, and push_changes runs `git push` after the append.
C10_EachCallAppendsOneBlock ==
    [][\A io \in IO, out \in CmdOutcomes :
          (ReadmeStep(io, out) /\ path # None) =>
              /\ IsPrefix(readme[path].text, readme'[path].text)
              /\ Blocks(readme'[path]) = Blocks(readme[path]) + 1
              /\ push_changes(io, out) =>
                     /\ Len(effects') >= 1
                     /\ effects'[Len(effects')] = Proc(path, <<"git", "push">>)]_vars

\* C10 as amended: with the path set, every update_readme and push_changes call
\* keeps the README content as a prefix; a call whose write succeeds appends
\* exactly one Project Structure block and one whose write fails appends
\* nothing; push_changes runs `git push` once, after the write and also when
\* the write failed.
C10_ReadmeOnlyGrows ==
    [][\A io \in IO, out \in CmdOutcomes :
          (ReadmeStep(io, out) /\ path # None) =>
              LET old == readme[path].text
                  new == readme'[path].text
                  written == Write(path, "README.md")
                  pushed  == Proc(path, <<"git", "push">>)
              IN  /\ IsPrefix(old, new)
                  /\ io = "ok" =>
                         /\ Len(new) = Len(old) + 1
                         /\ new[Len(new)].title = "# Project Structure"
                         /\ new[Len(new)].body = DescribeTree(RepoTree(path))
                  /\ io = "fail" => new = old
                  /\ push_changes(io, out) =>
                         effects' = (IF io = "ok" THEN <<written>> ELSE <<>>) \o <<pushed>>
                  /\ update_readme(io) =>
                         effects' = (IF io = "ok" THEN <<written>> ELSE <<>>)]_vars

\* C10 witness: push_changes appended a second block, of another structure
\* than the first, to a README.md that had prior content, then ran `git push`
C10_Witness ==
    /\ op = "push_changes"
    /\ path = Repo
    /\ Len(readme[Repo].text) = 3
    /\ readme[Repo].text[1] = Prior
    /\ readme[Repo].text[2] # readme[Repo].text[3]
    /\ effects = <<Write(Repo, "README.md"), Proc(Repo, <<"git", "push">>)>>

====
